---- MODULE Spec2Model ----
(***************************************************************************)
(* Model of the streaming conversation state machine of                    *)
(* backend/ai_generator.py: ConversationContext, the four state handlers,  *)
(* _dispatch_state and the driving loop of generate_response_stream.       *)
(*                                                                         *)
(* The async generator is modelled at the granularity of its suspension    *)
(* points: the awaits on the model service and on each tool execution, and *)
(* the yields that hand a StateTransition to the caller.  Code between two *)
(* suspension points runs without interleaving (one cooperative task).     *)
(* The timestamp of a tool-call history entry (datetime.now()) and the     *)
(* print of the iteration log do not influence any modelled value and are  *)
(* left out.  tool_manager is the supplied Tool Executor Port.             *)
(***************************************************************************)
EXTENDS Integers, Sequences, FiniteSets, TLC

\* max_iterations: int = 10
DEFAULT_MAX_ITERATIONS == 10

\* ---- bounds of the model -------------------------------------------------
MaxIter == 4        \* max_iterations ranges over 0..MaxIter
MaxBlocks == 2      \* a model response has at most MaxBlocks content blocks

\* ---- values -----------------------------------------------------------------
None == "<None>"

INITIAL == "INITIAL"
AWAITING_TOOL_DECISION == "AWAITING_TOOL_DECISION"
EXECUTING_TOOLS == "EXECUTING_TOOLS"
AWAITING_FOLLOW_UP == "AWAITING_FOLLOW_UP"
COMPLETED == "COMPLETED"
ERROR == "ERROR"

ConversationState ==
    {INITIAL, AWAITING_TOOL_DECISION, EXECUTING_TOOLS, AWAITING_FOLLOW_UP, COMPLETED, ERROR}

Terminal == {COMPLETED, ERROR}

SYSTEM_PROMPT == "SYSTEM_PROMPT"

base_params == [model |-> "model", temperature |-> 0, max_tokens |-> 800]

\* Content blocks a response can carry: text blocks have a text attribute,
\* tool-invocation blocks have id, name and input and no text attribute.
TextBlocks == {[type |-> "text", text |-> "a"], [type |-> "text", text |-> "b"]}

ToolUseBlocks ==
    {[type |-> "tool_use", id |-> "tu1", name |-> "search", input |-> "q:x"],
     [type |-> "tool_use", id |-> "tu2", name |-> "outline", input |-> "c:y"]}

Blocks == TextBlocks \cup ToolUseBlocks

\* Correlation ids are unique within a response, so contents do not repeat a block.
Contents ==
    UNION {{s \in [1..n -> Blocks] : \A i, j \in 1..n : i # j => s[i] # s[j]} : n \in 0..MaxBlocks}

StopReasons == {"tool_use", "end_turn", "max_tokens", "stop_sequence"}

Responses == [stop_reason : StopReasons, content : Contents]

NoResponse == [stop_reason |-> None, content |-> <<>>]

ToolResults == {"r1", "r2"}

Queries == {"What is 2+2?"}

Histories == {"", "earlier"}

ToolDeclarations == {<<>>, <<"search", "outline">>}

NoTransition == [from_state |-> None, to_state |-> None, trigger |-> None, data |-> [none |-> None]]

\* ---- state ------------------------------------------------------------------
VARIABLES
    max_iterations,   \* argument of generate_response_stream
    tools,            \* argument: tool declarations, <<>> when omitted
    query,            \* argument: the caller's question
    context,          \* the ConversationContext of the run
    current_state,    \* local of generate_response_stream
    iteration,        \* local of generate_response_stream
    last_response,    \* local of generate_response_stream
    transition,       \* local: the transition just produced
    tool_blocks,      \* local of _handle_tool_execution_state
    tool_results,     \* local of _handle_tool_execution_state
    block_index,      \* position of its for loop in tool_blocks
    pc,               \* position of the generator
    yielded,          \* the records handed to the caller so far
    dispatched,       \* the states dispatched so far
    modelCalls,       \* requests sent to the Model Service Port
    modelResponses,   \* responses it returned
    toolCalls,        \* invocations started on the Tool Executor Port
    toolFinished,     \* how many of them have returned or failed
    raised            \* which port raised, None while none did

vars == <<max_iterations, tools, query, context, current_state, iteration, last_response,
          transition, tool_blocks, tool_results, block_index, pc, yielded, dispatched,
          modelCalls, modelResponses, toolCalls, toolFinished, raised>>

locals == <<tool_blocks, tool_results, block_index>>
ports == <<modelCalls, modelResponses, toolCalls, toolFinished, raised>>
args == <<max_iterations, tools, query>>

\* ---- ConversationContext --------------------------------------------------------
SystemContent(conversation_history) ==
    IF conversation_history # ""
    THEN SYSTEM_PROMPT \o "\n\nPrevious conversation:\n" \o conversation_history
    ELSE SYSTEM_PROMPT

NewContext(q, conversation_history) ==
    [messages |-> <<[role |-> "user", content |-> q]>>,
     system_prompt |-> SystemContent(conversation_history),
     tool_call_count |-> 0,
     tool_call_history |-> <<>>,
     intermediate_responses |-> <<>>,
     metadata |-> <<>>]

\* add_tool_call that forgets to advance the counter
add_tool_call_NoIncrement(ctx, tool_name, tool_input, result) ==
    [ctx EXCEPT !.tool_call_history =
                    Append(@, [index |-> ctx.tool_call_count, tool_name |-> tool_name,
                               input |-> tool_input, result |-> result])]

add_tool_call(ctx, tool_name, tool_input, result) ==
    LET count == ctx.tool_call_count + 1
    IN [ctx EXCEPT !.tool_call_count = count,
                   !.tool_call_history =
                       Append(@, [index |-> count, tool_name |-> tool_name,
                                  input |-> tool_input, result |-> result])]

Init ==
    /\ max_iterations \in 0..MaxIter
    /\ tools \in ToolDeclarations
    /\ query \in Queries
    /\ \E conversation_history \in Histories :
           context = NewContext(query, conversation_history)
    /\ current_state = INITIAL
    /\ iteration = 0
    /\ last_response = NoResponse
    /\ transition = NoTransition
    /\ tool_blocks = <<>>
    /\ tool_results = <<>>
    /\ block_index = 0
    /\ pc = "start"
    /\ yielded = <<>>
    /\ dispatched = <<>>
    /\ modelCalls = <<>>
    /\ modelResponses = <<>>
    /\ toolCalls = <<>>
    /\ toolFinished = 0
    /\ raised = None

\* ---- helpers of the handlers -------------------------------------------------------
StateTransition(from_state, to_state, trigger, data) ==
    [from_state |-> from_state, to_state |-> to_state, trigger |-> trigger, data |-> data]

\* the request rebuilt from the query alone, as the single-shot path builds it
ApiParams_QueryOnly(ctx, tls) ==
    IF tls # <<>>
    THEN [model |-> base_params.model, temperature |-> base_params.temperature,
          max_tokens |-> base_params.max_tokens,
          messages |-> SubSeq(ctx.messages, 1, 1), system |-> ctx.system_prompt,
          tools |-> tls, tool_choice |-> [type |-> "auto"]]
    ELSE [model |-> base_params.model, temperature |-> base_params.temperature,
          max_tokens |-> base_params.max_tokens,
          messages |-> SubSeq(ctx.messages, 1, 1), system |-> ctx.system_prompt]

ApiParams(ctx, tls) ==
    IF tls # <<>>
    THEN [model |-> base_params.model, temperature |-> base_params.temperature,
          max_tokens |-> base_params.max_tokens,
          messages |-> ctx.messages, system |-> ctx.system_prompt,
          tools |-> tls, tool_choice |-> [type |-> "auto"]]
    ELSE [model |-> base_params.model, temperature |-> base_params.temperature,
          max_tokens |-> base_params.max_tokens,
          messages |-> ctx.messages, system |-> ctx.system_prompt]

\* the extraction loop without its break: the last text block wins
FirstText_NoBreak(content) ==
    LET withText == {i \in 1..Len(content) : "text" \in DOMAIN content[i]}
    IN IF withText = {} THEN None
       ELSE content[CHOOSE i \in withText : \A j \in withText : i >= j].text

\* for content_block in content: if hasattr(content_block, 'text'): ...; break
FirstText(content) ==
    LET withText == {i \in 1..Len(content) : "text" \in DOMAIN content[i]}
    IN IF withText = {} THEN None
       ELSE content[CHOOSE i \in withText : \A j \in withText : i <= j].text

IsToolUse(content_block) ==
    "type" \in DOMAIN content_block /\ content_block.type = "tool_use"

\* _execute_tool_async passing the correlation id where the tool name belongs
ExecuteToolCall_IdForName(tool_block) ==
    [name |-> tool_block.id, input |-> tool_block.input]

\* _execute_tool_async: execute_tool(tool_block.name, tool_block.input) on the executor
ExecuteToolCall(tool_block) ==
    [name |-> tool_block.name, input |-> tool_block.input]

\* the tool_result entry carrying the tool name where the correlation id belongs
ToolResultEntry_NameForId(content_block, result) ==
    [type |-> "tool_result", tool_use_id |-> content_block.name, content |-> result]

\* the entry appended to tool_results for one executed block
ToolResultEntry(content_block, result) ==
    [type |-> "tool_result", tool_use_id |-> content_block.id, content |-> result]

\* the tool results folded into the last entry of messages instead of appended
AppendToolResults_ReplaceLast(ctx, results) ==
    IF results # <<>>
    THEN [ctx EXCEPT !.messages =
              Append(SubSeq(@, 1, Len(@) - 1), [role |-> "user", content |-> results])]
    ELSE ctx

\* if tool_results: context.messages.append({"role": "user", "content": tool_results})
AppendToolResults(ctx, results) ==
    IF results # <<>>
    THEN [ctx EXCEPT !.messages = Append(@, [role |-> "user", content |-> results])]
    ELSE ctx

\* _handle_tool_decision_state whose else branch falls into the tool path
HandleToolDecisionState_ElseToolUse(response, ctx) ==
    LET stop_reason == response.stop_reason
    IN IF stop_reason = "end_turn"
       THEN [context |-> ctx,
             transition |-> StateTransition(AWAITING_TOOL_DECISION, COMPLETED, "end_turn",
                              [final_text |-> FirstText(response.content), response |-> response])]
       ELSE IF stop_reason = "max_tokens"
       THEN [context |-> ctx,
             transition |-> StateTransition(AWAITING_TOOL_DECISION, ERROR, "max_tokens",
                              [error |-> "Token limit reached",
                               partial_text |-> FirstText(response.content)])]
       ELSE [context |-> [ctx EXCEPT !.messages =
                              Append(@, [role |-> "assistant", content |-> response.content])],
             transition |-> StateTransition(AWAITING_TOOL_DECISION, EXECUTING_TOOLS, "tool_use",
                              [response |-> response, tool_blocks |-> response.content])]

\* _handle_tool_decision_state counting the tool iteration it logs
HandleToolDecisionState_CountsIteration(response, ctx) ==
    LET stop_reason == response.stop_reason
    IN IF stop_reason = "tool_use"
       THEN [context |-> [ctx EXCEPT !.messages =
                              Append(@, [role |-> "assistant", content |-> response.content]),
                                     !.tool_call_count = @ + 1],
             transition |-> StateTransition(AWAITING_TOOL_DECISION, EXECUTING_TOOLS, "tool_use",
                              [response |-> response, tool_blocks |-> response.content,
                               iteration |-> ctx.tool_call_count + 1])]
       ELSE IF stop_reason = "end_turn"
       THEN [context |-> ctx,
             transition |-> StateTransition(AWAITING_TOOL_DECISION, COMPLETED, "end_turn",
                              [final_text |-> FirstText(response.content), response |-> response])]
       ELSE IF stop_reason = "max_tokens"
       THEN [context |-> ctx,
             transition |-> StateTransition(AWAITING_TOOL_DECISION, ERROR, "max_tokens",
                              [error |-> "Token limit reached",
                               partial_text |-> FirstText(response.content)])]
       ELSE [context |-> ctx,
             transition |-> StateTransition(AWAITING_TOOL_DECISION, ERROR, "unknown_stop_reason",
                              [error |-> "Unexpected stop_reason: " \o stop_reason])]

\* _handle_tool_decision_state: the transition and the context it leaves
HandleToolDecisionState(response, ctx) ==
    LET stop_reason == response.stop_reason
    IN IF stop_reason = "tool_use"
       THEN [context |-> [ctx EXCEPT !.messages =
                              Append(@, [role |-> "assistant", content |-> response.content])],
             transition |-> StateTransition(AWAITING_TOOL_DECISION, EXECUTING_TOOLS, "tool_use",
                              [response |-> response, tool_blocks |-> response.content])]
       ELSE IF stop_reason = "end_turn"
       THEN [context |-> ctx,
             transition |-> StateTransition(AWAITING_TOOL_DECISION, COMPLETED, "end_turn",
                              [final_text |-> FirstText(response.content), response |-> response])]
       ELSE IF stop_reason = "max_tokens"
       THEN [context |-> ctx,
             transition |-> StateTransition(AWAITING_TOOL_DECISION, ERROR, "max_tokens",
                              [error |-> "Token limit reached",
                               partial_text |-> FirstText(response.content)])]
       ELSE [context |-> ctx,
             transition |-> StateTransition(AWAITING_TOOL_DECISION, ERROR, "unknown_stop_reason",
                              [error |-> "Unexpected stop_reason: " \o stop_reason])]

\* the follow-up copy of the classification losing the partial text on max_tokens
HandleFollowUpResponse_NoPartialText(response, ctx) ==
    LET r == HandleToolDecisionState(response, ctx)
    IN [context |-> r.context,
        transition |->
            IF r.transition.trigger = "max_tokens"
            THEN StateTransition(AWAITING_FOLLOW_UP, ERROR, "max_tokens",
                                 [error |-> "Token limit reached"])
            ELSE [r.transition EXCEPT !.from_state = AWAITING_FOLLOW_UP]]

\* the follow-up handler keeping the response it received in the context's metadata
HandleFollowUpResponse_WritesMetadata(response, ctx) ==
    LET r == HandleToolDecisionState(response, ctx)
    IN [context |-> [r.context EXCEPT !.metadata = <<response.stop_reason>>],
        transition |-> [r.transition EXCEPT !.from_state = AWAITING_FOLLOW_UP]]

\* the classification inlined in _handle_follow_up_state
HandleFollowUpResponse(response, ctx) ==
    LET stop_reason == response.stop_reason
    IN IF stop_reason = "tool_use"
       THEN [context |-> [ctx EXCEPT !.messages =
                              Append(@, [role |-> "assistant", content |-> response.content])],
             transition |-> StateTransition(AWAITING_FOLLOW_UP, EXECUTING_TOOLS, "tool_use",
                              [response |-> response, tool_blocks |-> response.content])]
       ELSE IF stop_reason = "end_turn"
       THEN [context |-> ctx,
             transition |-> StateTransition(AWAITING_FOLLOW_UP, COMPLETED, "end_turn",
                              [final_text |-> FirstText(response.content), response |-> response])]
       ELSE IF stop_reason = "max_tokens"
       THEN [context |-> ctx,
             transition |-> StateTransition(AWAITING_FOLLOW_UP, ERROR, "max_tokens",
                              [error |-> "Token limit reached",
                               partial_text |-> FirstText(response.content)])]
       ELSE [context |-> ctx,
             transition |-> StateTransition(AWAITING_FOLLOW_UP, ERROR, "unknown_stop_reason",
                              [error |-> "Unexpected stop_reason: " \o stop_reason])]

\* the while condition with the cap off by one
LoopCondition_OffByOne(state, it, max) ==
    state \notin Terminal /\ it <= max

\* the while condition of generate_response_stream
LoopCondition(state, it, max) ==
    state \notin Terminal /\ it < max

\* the safety block testing for strictly more than the cap
ExceededCondition_Strict(state, it, max) ==
    it > max /\ state \notin Terminal

\* the condition of the safety block after the loop
ExceededCondition(state, it, max) ==
    it >= max /\ state \notin Terminal

ExceededTransition(state, max) ==
    StateTransition(state, ERROR, "max_iterations_exceeded",
        [error |-> "Exceeded " \o ToString(max) \o " iterations without completion"])

\* ---- the generator ---------------------------------------------------------------
\* The caller pulls the next record: the generator starts, or resumes after a yield.
Pull ==
    /\ pc \in {"start", "yielded", "yielded_final"}
    /\ IF pc = "start"
       THEN /\ pc' = "loop"
            /\ UNCHANGED <<current_state, last_response>>
       ELSE IF pc = "yielded_final"
       THEN /\ pc' = "done"
            /\ UNCHANGED <<current_state, last_response>>
       ELSE IF transition.to_state \in Terminal
       THEN /\ pc' = "after_loop"
            /\ UNCHANGED <<current_state, last_response>>
       ELSE /\ pc' = "loop"
            /\ current_state' = transition.to_state
            /\ last_response' = IF "response" \in DOMAIN transition.data
                                THEN transition.data.response
                                ELSE last_response
    /\ UNCHANGED <<args, context, iteration, transition, locals, yielded, dispatched, ports>>

\* a generator that runs ahead: the next iteration starts without waiting for the pull
LoopTest_Eager ==
    /\ \/ /\ pc = "loop"
          /\ IF LoopCondition(current_state, iteration, max_iterations)
             THEN /\ iteration' = iteration + 1
                  /\ pc' = "dispatch"
             ELSE /\ pc' = "after_loop"
                  /\ UNCHANGED iteration
          /\ UNCHANGED <<current_state, last_response>>
       \/ /\ pc = "yielded"
          /\ transition.to_state \notin Terminal
          /\ iteration < max_iterations
          /\ iteration' = iteration + 1
          /\ current_state' = transition.to_state
          /\ last_response' = IF "response" \in DOMAIN transition.data
                              THEN transition.data.response
                              ELSE last_response
          /\ pc' = "dispatch"
    /\ UNCHANGED <<args, context, transition, locals, yielded, dispatched, ports>>

\* the counter advanced once per model round trip instead of once per dispatched state
LoopTest_PerRoundTrip ==
    /\ pc = "loop"
    /\ IF LoopCondition(current_state, iteration, max_iterations)
       THEN /\ iteration' = IF current_state \in {INITIAL, AWAITING_FOLLOW_UP}
                            THEN iteration + 1 ELSE iteration
            /\ pc' = "dispatch"
       ELSE /\ pc' = "after_loop"
            /\ UNCHANGED iteration
    /\ UNCHANGED <<args, context, current_state, last_response, transition, locals,
                   yielded, dispatched, ports>>

\* while current_state not in [COMPLETED, ERROR] and iteration < max_iterations
LoopTest ==
    /\ pc = "loop"
    /\ IF LoopCondition(current_state, iteration, max_iterations)
       THEN /\ iteration' = iteration + 1
            /\ pc' = "dispatch"
       ELSE /\ pc' = "after_loop"
            /\ UNCHANGED iteration
    /\ UNCHANGED <<args, context, current_state, last_response, transition, locals,
                   yielded, dispatched, ports>>

\* _handle_initial_state up to its await on the model service
HandleInitial ==
    /\ pc = "dispatch"
    /\ current_state = INITIAL
    /\ dispatched' = Append(dispatched, current_state)
    /\ modelCalls' = Append(modelCalls, ApiParams(context, tools))
    /\ pc' = "await_model"
    /\ UNCHANGED <<args, context, current_state, iteration, last_response, transition, locals,
                   yielded, modelResponses, toolCalls, toolFinished, raised>>

\* _handle_tool_decision_state, then the yield of its transition
HandleToolDecision ==
    /\ pc = "dispatch"
    /\ current_state = AWAITING_TOOL_DECISION
    /\ dispatched' = Append(dispatched, current_state)
    /\ LET r == HandleToolDecisionState(last_response, context)
       IN /\ context' = r.context
          /\ transition' = r.transition
          /\ yielded' = Append(yielded, r.transition)
    /\ pc' = "yielded"
    /\ UNCHANGED <<args, current_state, iteration, last_response, locals, ports>>

\* _dispatch_state for EXECUTING_TOOLS: entry of _handle_tool_execution_state
HandleToolExecution ==
    /\ pc = "dispatch"
    /\ current_state = EXECUTING_TOOLS
    /\ dispatched' = Append(dispatched, current_state)
    /\ tool_blocks' = IF last_response # NoResponse THEN last_response.content ELSE <<>>
    /\ tool_results' = <<>>
    /\ block_index' = 1
    /\ pc' = "tools"
    /\ UNCHANGED <<args, context, current_state, iteration, last_response, transition,
                   yielded, ports>>

\* the for loop starting every remaining tool at once instead of one at a time
ToolLoop_FanOut ==
    /\ pc = "tools"
    /\ IF block_index <= Len(tool_blocks)
       THEN IF IsToolUse(tool_blocks[block_index])
            THEN /\ toolCalls' = toolCalls \o
                        [i \in 1..Len(SelectSeq(SubSeq(tool_blocks, block_index, Len(tool_blocks)),
                                                IsToolUse)) |->
                            ExecuteToolCall(SelectSeq(SubSeq(tool_blocks, block_index,
                                                             Len(tool_blocks)), IsToolUse)[i])]
                 /\ pc' = "await_tool"
                 /\ UNCHANGED <<context, transition, yielded, locals>>
            ELSE /\ block_index' = block_index + 1
                 /\ UNCHANGED <<context, transition, yielded, tool_blocks, tool_results,
                                toolCalls, pc>>
       ELSE /\ context' = AppendToolResults(context, tool_results)
            /\ transition' = StateTransition(EXECUTING_TOOLS, AWAITING_FOLLOW_UP,
                                 "tools_executed", [tool_results |-> tool_results])
            /\ yielded' = Append(yielded, transition')
            /\ pc' = "yielded"
            /\ UNCHANGED <<locals, toolCalls>>
    /\ UNCHANGED <<args, current_state, iteration, last_response, dispatched,
                   modelCalls, modelResponses, toolFinished, raised>>

\* one turn of the for loop over tool_blocks, up to the await of a tool or
\* past the loop to the yield of the tools_executed transition
ToolLoop ==
    /\ pc = "tools"
    /\ IF block_index <= Len(tool_blocks)
       THEN IF IsToolUse(tool_blocks[block_index])
            THEN /\ toolCalls' = Append(toolCalls, ExecuteToolCall(tool_blocks[block_index]))
                 /\ pc' = "await_tool"
                 /\ UNCHANGED <<context, transition, yielded, locals>>
            ELSE /\ block_index' = block_index + 1
                 /\ UNCHANGED <<context, transition, yielded, tool_blocks, tool_results,
                                toolCalls, pc>>
       ELSE /\ context' = AppendToolResults(context, tool_results)
            /\ transition' = StateTransition(EXECUTING_TOOLS, AWAITING_FOLLOW_UP,
                                 "tools_executed", [tool_results |-> tool_results])
            /\ yielded' = Append(yielded, transition')
            /\ pc' = "yielded"
            /\ UNCHANGED <<locals, toolCalls>>
    /\ UNCHANGED <<args, current_state, iteration, last_response, dispatched,
                   modelCalls, modelResponses, toolFinished, raised>>

\* the tool returns: add_tool_call and the tool_result entry
ToolReturns ==
    /\ pc = "await_tool"
    /\ \E result \in ToolResults :
          LET content_block == tool_blocks[block_index]
          IN /\ context' = add_tool_call(context, content_block.name, content_block.input, result)
             /\ tool_results' = Append(tool_results, ToolResultEntry(content_block, result))
    /\ toolFinished' = toolFinished + 1
    /\ block_index' = block_index + 1
    /\ pc' = "tools"
    /\ UNCHANGED <<args, current_state, iteration, last_response, transition, tool_blocks,
                   yielded, dispatched, modelCalls, modelResponses, toolCalls, raised>>

\* the tool raises: nothing catches it, the generator ends with the exception
ToolRaises ==
    /\ pc = "await_tool"
    /\ toolFinished' = toolFinished + 1
    /\ raised' = "tool"
    /\ pc' = "raised"
    /\ UNCHANGED <<args, context, current_state, iteration, last_response, transition, locals,
                   yielded, dispatched, modelCalls, modelResponses, toolCalls>>

\* _handle_follow_up_state up to its await on the model service
HandleFollowUp ==
    /\ pc = "dispatch"
    /\ current_state = AWAITING_FOLLOW_UP
    /\ dispatched' = Append(dispatched, current_state)
    /\ modelCalls' = Append(modelCalls, ApiParams(context, tools))
    /\ pc' = "await_model"
    /\ UNCHANGED <<args, context, current_state, iteration, last_response, transition, locals,
                   yielded, modelResponses, toolCalls, toolFinished, raised>>

\* the model service returns response: the rest of the handler, then the yield
ModelAnswers(response) ==
    /\ pc = "await_model"
    /\ modelResponses' = Append(modelResponses, response)
    /\ IF current_state = INITIAL
       THEN /\ transition' = StateTransition(INITIAL, AWAITING_TOOL_DECISION,
                                 "api_call_complete", [response |-> response])
            /\ UNCHANGED context
       ELSE LET r == HandleFollowUpResponse(response, context)
            IN /\ context' = r.context
               /\ transition' = r.transition
    /\ yielded' = Append(yielded, transition')
    /\ pc' = "yielded"
    /\ UNCHANGED <<args, current_state, iteration, last_response, locals, dispatched,
                   modelCalls, toolCalls, toolFinished, raised>>

ModelReturns == \E response \in Responses : ModelAnswers(response)

\* the model service raises and the handler turns the failure into an ERROR record
ModelRaises_Swallowed ==
    /\ pc = "await_model"
    /\ raised' = "model"
    /\ transition' = StateTransition(current_state, ERROR, "api_error", [error |-> "API error"])
    /\ yielded' = Append(yielded, transition')
    /\ pc' = "yielded"
    /\ UNCHANGED <<args, context, current_state, iteration, last_response, locals,
                   dispatched, modelCalls, modelResponses, toolCalls, toolFinished>>

\* the model service raises: nothing catches it
ModelRaises ==
    /\ pc = "await_model"
    /\ raised' = "model"
    /\ pc' = "raised"
    /\ UNCHANGED <<args, context, current_state, iteration, last_response, transition, locals,
                   yielded, dispatched, modelCalls, modelResponses, toolCalls, toolFinished>>

\* the safety block after the loop
AfterLoop ==
    /\ pc = "after_loop"
    /\ IF ExceededCondition(current_state, iteration, max_iterations)
       THEN /\ yielded' = Append(yielded, ExceededTransition(current_state, max_iterations))
            /\ pc' = "yielded_final"
       ELSE /\ pc' = "done"
            /\ UNCHANGED yielded
    /\ UNCHANGED <<args, context, current_state, iteration, last_response, transition, locals,
                   dispatched, ports>>

Next ==
    \/ Pull
    \/ LoopTest
    \/ HandleInitial
    \/ HandleToolDecision
    \/ HandleToolExecution
    \/ ToolLoop
    \/ ToolReturns
    \/ ToolRaises
    \/ HandleFollowUp
    \/ ModelReturns
    \/ ModelRaises
    \/ AfterLoop

Spec == Init /\ [][Next]_vars

\* ---- runs up to the default cap, with one-block responses ----------------------------
CapResponses ==
    [stop_reason : StopReasons,
     content : {<<[type |-> "text", text |-> "a"]>>,
                <<[type |-> "tool_use", id |-> "tu1", name |-> "search", input |-> "q:x"]>>}]

CapInit ==
    /\ max_iterations \in 0..DEFAULT_MAX_ITERATIONS
    /\ tools = <<"search", "outline">>
    /\ query \in Queries
    /\ context = NewContext(query, "")
    /\ current_state = INITIAL
    /\ iteration = 0
    /\ last_response = NoResponse
    /\ transition = NoTransition
    /\ tool_blocks = <<>>
    /\ tool_results = <<>>
    /\ block_index = 0
    /\ pc = "start"
    /\ yielded = <<>>
    /\ dispatched = <<>>
    /\ modelCalls = <<>>
    /\ modelResponses = <<>>
    /\ toolCalls = <<>>
    /\ toolFinished = 0
    /\ raised = None

CapModelReturns == \E response \in CapResponses : ModelAnswers(response)

CapNext ==
    \/ Pull
    \/ LoopTest
    \/ HandleInitial
    \/ HandleToolDecision
    \/ HandleToolExecution
    \/ ToolLoop
    \/ ToolReturns
    \/ ToolRaises
    \/ HandleFollowUp
    \/ CapModelReturns
    \/ ModelRaises
    \/ AfterLoop

CapSpec == CapInit /\ [][CapNext]_vars

TypeOK ==
    /\ iteration \in 0..(max_iterations + 1)
    /\ current_state \in ConversationState
    /\ pc \in {"start", "loop", "dispatch", "await_model", "tools", "await_tool",
               "yielded", "after_loop", "yielded_final", "done", "raised"}

\* ---- fairness: the caller keeps pulling, every port call returns or raises,
\* ---- and the generator runs on between its suspension points
LiveSpec ==
    /\ Init /\ [][Next]_vars
    /\ WF_vars(Pull)
    /\ WF_vars(ModelReturns \/ ModelRaises)
    /\ WF_vars(ToolReturns \/ ToolRaises)
    /\ WF_vars(LoopTest \/ HandleInitial \/ HandleToolDecision \/ HandleToolExecution
               \/ HandleFollowUp \/ ToolLoop \/ AfterLoop)

\* ---- vocabulary of the properties ---------------------------------------------------
Halted == pc \in {"done", "raised"}

Last(s) == s[Len(s)]

TerminalRecords == {i \in 1..Len(yielded) : yielded[i].to_state \in Terminal}

AllToolUse == \A i \in 1..Len(modelResponses) : modelResponses[i].stop_reason = "tool_use"

NoToolUse == \A i \in 1..Len(modelResponses) : modelResponses[i].stop_reason # "tool_use"

RECURSIVE FirstTextBlock(_)
FirstTextBlock(content) ==
    IF content = <<>> THEN None
    ELSE IF Head(content) \in TextBlocks THEN Head(content).text
    ELSE FirstTextBlock(Tail(content))

RequestsTool(b) == b \in ToolUseBlocks

ToolInvocations(content) == SelectSeq(content, RequestsTool)

\* the tool-invocation blocks of the first k responses, in emission order
RECURSIVE InvocationsUpTo(_)
InvocationsUpTo(k) ==
    IF k = 0 THEN <<>>
    ELSE InvocationsUpTo(k - 1) \o ToolInvocations(modelResponses[k].content)

ToolRounds == Cardinality({i \in 1..Len(yielded) : yielded[i].trigger = "tools_executed"})

IsPrefix(s, t) == Len(s) <= Len(t) /\ \A i \in 1..Len(s) : s[i] = t[i]

\* ---- C1 ---------------------------------------------------------------------------
\* C1: when no port raises, a record whose to_state is COMPLETED or ERROR is the
\* last record yielded, and a run that has ended yielded exactly one such record.
C1_TerminalRecordIsLast ==
    raised = None =>
        /\ \A i \in TerminalRecords : i = Len(yielded)
        /\ (pc = "done" => Cardinality(TerminalRecords) = 1)

\* ---- C2 ---------------------------------------------------------------------------
\* C2: while the model has answered every call with tool_use and no port raised,
\* at most max_iterations states are dispatched; the loop is left only after
\* exactly max_iterations dispatches, and what follows is one ERROR record with
\* trigger max_iterations_exceeded and the message naming the cap, after
\* max_iterations non-terminal records.
C2_IterationCapExact ==
    (raised = None /\ AllToolUse) =>
        /\ Len(dispatched) <= max_iterations
        /\ (pc \in {"after_loop", "yielded_final", "done"} => Len(dispatched) = max_iterations)
        /\ (pc \in {"yielded_final", "done"} =>
               /\ Len(yielded) = max_iterations + 1
               /\ TerminalRecords = {Len(yielded)}
               /\ Last(yielded).to_state = ERROR
               /\ Last(yielded).trigger = "max_iterations_exceeded"
               /\ Last(yielded).data =
                      [error |-> "Exceeded " \o ToString(max_iterations)
                                     \o " iterations without completion"])

C2_Witness ==
    /\ pc = "done" /\ raised = None /\ AllToolUse
    /\ max_iterations = 4
    /\ dispatched = <<INITIAL, AWAITING_TOOL_DECISION, EXECUTING_TOOLS, AWAITING_FOLLOW_UP>>
    /\ Len(yielded) = 5
    /\ Last(yielded).trigger = "max_iterations_exceeded"
    /\ Last(yielded).data.error = "Exceeded 4 iterations without completion"

\* ---- C3 ---------------------------------------------------------------------------
\* C3: when every port call returns or raises and the caller keeps pulling, the
\* run eventually halts; and at every moment at most max_iterations states have
\* been dispatched and at most max_iterations + 1 records yielded.
C3_Termination ==
    /\ <>Halted
    /\ [](Len(dispatched) <= max_iterations /\ Len(yielded) <= max_iterations + 1)

C3_Witness ==
    /\ pc = "done" /\ raised = None
    /\ max_iterations >= 2
    /\ Len(dispatched) = max_iterations
    /\ Len(yielded) = max_iterations + 1
    /\ Last(yielded).trigger = "max_iterations_exceeded"
    /\ Last(yielded).from_state = EXECUTING_TOOLS

\* the iteration-exhaustion ERROR is reached from each of the four non-terminal states
ExhaustedFrom(state) ==
    /\ yielded # <<>>
    /\ Last(yielded).trigger = "max_iterations_exceeded"
    /\ Last(yielded).from_state = state
    /\ TerminalRecords = {Len(yielded)}

\* ---- C4 ---------------------------------------------------------------------------
\* C4 as stated: with tools omitted, whatever the model answers and whatever the
\* cap, EXECUTING_TOOLS and AWAITING_FOLLOW_UP are never dispatched, only INITIAL
\* then AWAITING_TOOL_DECISION are, and a run that ended called the model exactly once.
C4_NoTools_AsStated ==
    (tools = <<>> /\ raised = None) =>
        /\ IsPrefix(dispatched, <<INITIAL, AWAITING_TOOL_DECISION>>)
        /\ Len(modelCalls) <= 1
        /\ (pc = "done" => Len(modelCalls) = 1)

\* C4 amended: with tools omitted and a model that does not answer tool_use, only
\* INITIAL then AWAITING_TOOL_DECISION are dispatched, every record leads to
\* AWAITING_TOOL_DECISION, COMPLETED or ERROR, the model request carries no tool
\* declarations, and a run that ended called the model exactly once when
\* max_iterations >= 1 and never when max_iterations = 0.
C4_NoTools ==
    (tools = <<>> /\ NoToolUse) =>
        /\ IsPrefix(dispatched, <<INITIAL, AWAITING_TOOL_DECISION>>)
        /\ \A i \in 1..Len(yielded) :
               yielded[i].to_state \in {AWAITING_TOOL_DECISION, COMPLETED, ERROR}
        /\ Len(modelCalls) <= 1
        /\ \A i \in 1..Len(modelCalls) : "tools" \notin DOMAIN modelCalls[i]
        /\ (pc = "done" => Len(modelCalls) = (IF max_iterations >= 1 THEN 1 ELSE 0))
        /\ (pc = "done" => Last(yielded).to_state \in Terminal)

C4_Witness ==
    /\ tools = <<>> /\ NoToolUse /\ pc = "done"
    /\ max_iterations = 3
    /\ dispatched = <<INITIAL, AWAITING_TOOL_DECISION>>
    /\ Len(modelCalls) = 1
    /\ Last(yielded).to_state = COMPLETED

\* ---- C5 ---------------------------------------------------------------------------
\* C5: when the first response is end_turn (and the cap leaves room for the two
\* dispatches), the run ends with tool_call_count 0, no tool invocation, and
\* exactly the two records INITIAL -> AWAITING_TOOL_DECISION and
\* AWAITING_TOOL_DECISION -> COMPLETED, the latter carrying the first text block.
C5_ImmediateCompletion ==
    (/\ pc = "done" /\ raised = None
     /\ max_iterations >= 2
     /\ modelResponses # <<>>
     /\ modelResponses[1].stop_reason = "end_turn") =>
        /\ context.tool_call_count = 0
        /\ toolCalls = <<>>
        /\ Len(yielded) = 2
        /\ yielded[1].from_state = INITIAL /\ yielded[1].to_state = AWAITING_TOOL_DECISION
        /\ yielded[2].from_state = AWAITING_TOOL_DECISION /\ yielded[2].to_state = COMPLETED
        /\ yielded[2].data.final_text = FirstTextBlock(modelResponses[1].content)

\* ---- C6 ---------------------------------------------------------------------------
\* C6: the executor is invoked once per tool-invocation block, in emission order,
\* with the block's name and input: between rounds the invocations of the run
\* are exactly the blocks of the executed tool_use responses, in order; inside a
\* round they are a prefix of that, extended by the blocks of the response being
\* executed.  tool_call_history has one entry per returned invocation, in the
\* same order, and its indices are 1, 2, 3, ...
C6_ToolsInEmissionOrder ==
    LET done == InvocationsUpTo(ToolRounds)
        call(b) == [name |-> b.name, input |-> b.input]
        history == context.tool_call_history
    IN /\ (pc \notin {"tools", "await_tool", "raised"} =>
              /\ Len(toolCalls) = Len(done)
              /\ Len(history) = Len(done))
       /\ (pc \in {"tools", "await_tool", "raised"} /\ raised # "model" =>
              LET all == InvocationsUpTo(ToolRounds + 1)
              IN /\ Len(done) <= Len(toolCalls) /\ Len(toolCalls) <= Len(all)
                 /\ \A i \in 1..Len(toolCalls) : toolCalls[i] = call(all[i])
                 /\ \A i \in 1..Len(history) :
                        history[i].tool_name = all[i].name /\ history[i].input = all[i].input)
       /\ \A i \in 1..Len(toolCalls) :
              i <= Len(done) => toolCalls[i] = call(done[i])
       /\ \A i \in 1..Len(history) :
              /\ history[i].index = i
              /\ history[i].tool_name = toolCalls[i].name
              /\ history[i].input = toolCalls[i].input
       /\ \A i \in 1..Len(yielded) :
              yielded[i].trigger = "tools_executed" =>
                  Len(yielded[i].data.tool_results)
                      = Len(ToolInvocations(yielded[i - 1].data.tool_blocks))

C6_Witness ==
    /\ pc = "yielded"
    /\ transition.trigger = "tools_executed"
    /\ Len(last_response.content) = 2
    /\ toolCalls = <<[name |-> "outline", input |-> "c:y"], [name |-> "search", input |-> "q:x"]>>
    /\ Len(context.tool_call_history) = 2
    /\ context.tool_call_history[2].index = 2
    /\ context.tool_call_history[2].tool_name = "search"

\* ---- C7 ---------------------------------------------------------------------------
\* C7: tool_call_count equals the length of tool_call_history before and after
\* every step, never decreases, and rises by exactly one exactly when a tool
\* invocation returns.
C7_CountMatchesHistory ==
    [][/\ context.tool_call_count = Len(context.tool_call_history)
       /\ context'.tool_call_count = Len(context'.tool_call_history)
       /\ context'.tool_call_count \in {context.tool_call_count, context.tool_call_count + 1}
       /\ (context'.tool_call_count = context.tool_call_count + 1
              <=> (toolFinished' = toolFinished + 1 /\ raised' = None))]_vars

C7_Witness ==
    /\ pc = "await_tool"
    /\ block_index = 2
    /\ context.tool_call_count = 1
    /\ Len(context.tool_call_history) = 1

\* ---- C8 ---------------------------------------------------------------------------
\* C8: the record produced in AWAITING_TOOL_DECISION is determined by the stop
\* reason of the response: tool_use -> EXECUTING_TOOLS; end_turn -> COMPLETED with
\* the first text block or null; max_tokens -> ERROR "Token limit reached" with
\* the first text block or null; anything else -> ERROR carrying the raw reason.
\* Every ERROR record carries an error message.
C8_Classification ==
    /\ \A i \in 1..Len(yielded) :
          yielded[i].from_state = AWAITING_TOOL_DECISION
              /\ yielded[i].trigger # "max_iterations_exceeded" =>
          LET response == modelResponses[1]
              reason == response.stop_reason
              t == yielded[i]
          IN /\ i = 2
             /\ reason = "tool_use" =>
                    /\ t.to_state = EXECUTING_TOOLS /\ t.trigger = "tool_use"
                    /\ t.data = [response |-> response, tool_blocks |-> response.content]
             /\ reason = "end_turn" =>
                    /\ t.to_state = COMPLETED /\ t.trigger = "end_turn"
                    /\ t.data = [final_text |-> FirstTextBlock(response.content),
                                 response |-> response]
             /\ reason = "max_tokens" =>
                    /\ t.to_state = ERROR /\ t.trigger = "max_tokens"
                    /\ t.data = [error |-> "Token limit reached",
                                 partial_text |-> FirstTextBlock(response.content)]
             /\ reason = "stop_sequence" =>
                    /\ t.to_state = ERROR /\ t.trigger = "unknown_stop_reason"
                    /\ t.data = [error |-> "Unexpected stop_reason: stop_sequence"]
             /\ reason \in {"tool_use", "end_turn", "max_tokens", "stop_sequence"}
    /\ \A i \in 1..Len(yielded) :
          yielded[i].to_state = ERROR =>
              "error" \in DOMAIN yielded[i].data /\ yielded[i].data.error \notin {"", None}

C8_Witness ==
    /\ Len(yielded) >= 2
    /\ yielded[2].from_state = AWAITING_TOOL_DECISION
    /\ yielded[2].to_state = COMPLETED
    /\ modelResponses[1].content # <<>>
    /\ yielded[2].data.final_text = None

\* ---- C9 ---------------------------------------------------------------------------
\* C9: the step in which a port raises yields no record (the state dispatched
\* last has none), starts no call and ends the generator; and no step is taken
\* once a port has raised: no retry, no further model or tool call.
C9_FailurePropagates ==
    [][/\ raised = None
       /\ (raised' # None =>
              /\ pc' = "raised"
              /\ yielded' = yielded
              /\ Len(yielded') = Len(dispatched') - 1
              /\ modelCalls' = modelCalls
              /\ toolCalls' = toolCalls
              /\ context' = context)]_vars

C9_Witness ==
    /\ raised = "tool"
    /\ pc = "raised"
    /\ Len(toolCalls) = 2
    /\ Len(yielded) = 2
    /\ Len(dispatched) = 3

\* ---- C10 --------------------------------------------------------------------------
\* C10: the number of tool invocations that have finished, by returning or by
\* failing, equals the length of tool_call_history.
C10_RecordedRegardlessOfOutcome ==
    toolFinished = Len(context.tool_call_history)

\* ---- C11 --------------------------------------------------------------------------
OutstandingModelCalls ==
    Len(modelCalls) - Len(modelResponses) - (IF raised = "model" THEN 1 ELSE 0)

OutstandingToolCalls == Len(toolCalls) - toolFinished

\* C11: at most one port call is outstanding at any time: a tool invocation is
\* outstanding only while the generator awaits it, a model call only while the
\* generator awaits it, and never both nor two of a kind.
C11_OneOutstandingCall ==
    /\ OutstandingModelCalls \in {0, 1}
    /\ OutstandingToolCalls \in {0, 1}
    /\ OutstandingModelCalls + OutstandingToolCalls <= 1
    /\ (OutstandingToolCalls = 1 <=> pc = "await_tool")
    /\ (OutstandingModelCalls = 1 <=> pc = "await_model")

C11_Witness ==
    /\ pc = "await_tool"
    /\ Len(toolCalls) = 2
    /\ toolFinished = 1
    /\ Len(tool_blocks) = 2
    /\ OutstandingModelCalls = 0

\* ---- C12 --------------------------------------------------------------------------
Suspended == pc \in {"start", "yielded", "yielded_final"}

\* C12: while the generator is suspended at a yield (or not yet started) no port
\* call is outstanding, and the only step possible is the caller's pull, which
\* starts no call, yields nothing and leaves the context, the iteration counter
\* and the dispatch log as they were when the record was yielded.
C12_OnDemand ==
    [][Suspended =>
          /\ OutstandingModelCalls = 0 /\ OutstandingToolCalls = 0
          /\ pc' \in {"loop", "after_loop", "done"}
          /\ UNCHANGED <<context, iteration, yielded, dispatched, modelCalls,
                         modelResponses, toolCalls, toolFinished, raised>>]_vars

C12_Witness ==
    /\ pc = "loop"
    /\ current_state = AWAITING_FOLLOW_UP
    /\ Last(yielded).trigger = "tools_executed"
    /\ Len(context.messages) = 3
    /\ Len(modelCalls) = 1

\* ---- C13 --------------------------------------------------------------------------
AtFollowUpCall == pc = "await_model" /\ current_state = AWAITING_FOLLOW_UP

\* C13 as stated: at every model call of AWAITING_FOLLOW_UP at least one tool
\* invocation has been executed and the last message is a user-role turn.
C13_FollowUpAfterTools_AsStated ==
    AtFollowUpCall =>
        /\ context.tool_call_count >= 1
        /\ Last(context.messages).role = "user"

\* C13 amended: at every model call of AWAITING_FOLLOW_UP the request carries the
\* whole message history; when the tool_use response before it holds at least
\* one tool-invocation block, tool_call_count >= 1 and the last message is the
\* user-role turn with one tool_result per block, right after the assistant turn
\* holding that response; when it holds none, EXECUTING_TOOLS appended nothing
\* and the last message is that assistant turn.
C13_FollowUpAfterTools ==
    AtFollowUpCall =>
        LET response == Last(modelResponses)
            blocks == ToolInvocations(response.content)
            messages == Last(modelCalls).messages
            n == Len(messages)
        IN /\ messages = context.messages
           /\ response.stop_reason = "tool_use"
           /\ IF blocks # <<>>
              THEN /\ context.tool_call_count >= Len(blocks)
                   /\ messages[n].role = "user"
                   /\ Len(messages[n].content) = Len(blocks)
                   /\ \A k \in 1..Len(blocks) :
                          /\ messages[n].content[k].type = "tool_result"
                          /\ messages[n].content[k].tool_use_id = blocks[k].id
                   /\ messages[n - 1] = [role |-> "assistant", content |-> response.content]
              ELSE messages[n] = [role |-> "assistant", content |-> response.content]

C13_Witness ==
    /\ AtFollowUpCall
    /\ Len(Last(modelResponses).content) = 2
    /\ Len(ToolInvocations(Last(modelResponses).content)) = 1
    /\ context.tool_call_count = 1
    /\ Last(Last(modelCalls).messages).role = "user"

\* ---- C14 --------------------------------------------------------------------------
RoundsBefore(n) == Cardinality({i \in 1..(n - 1) : yielded[i].trigger = "tools_executed"})

ToolUseRecordsUpTo(n) == Cardinality({i \in 1..n : yielded[i].trigger = "tool_use"})

\* the tool results the round that ended with record n must report: one per
\* tool-invocation block of its response, with the block's id and the result
\* its execution returned
ExpectedResults(n) ==
    LET blocks == ToolInvocations(modelResponses[RoundsBefore(n) + 1].content)
        base == Len(InvocationsUpTo(RoundsBefore(n)))
    IN [k \in 1..Len(blocks) |->
           [type |-> "tool_result", tool_use_id |-> blocks[k].id,
            content |-> context.tool_call_history[base + k].result]]

\* the message history after the first n records: the query, then per round one
\* assistant turn and, when the round executed a tool, one user turn
RECURSIVE ExpectedMessages(_)
ExpectedMessages(n) ==
    IF n = 0 THEN <<[role |-> "user", content |-> query]>>
    ELSE IF yielded[n].trigger = "tool_use"
    THEN Append(ExpectedMessages(n - 1),
                [role |-> "assistant",
                 content |-> modelResponses[ToolUseRecordsUpTo(n)].content])
    ELSE IF yielded[n].trigger = "tools_executed" /\ ExpectedResults(n) # <<>>
    THEN Append(ExpectedMessages(n - 1), [role |-> "user", content |-> ExpectedResults(n)])
    ELSE ExpectedMessages(n - 1)

\* C14: the tool_use response is in messages as one assistant turn from its
\* classification on, hence before its tools run; a round with N >= 1 blocks then
\* adds exactly one user turn with N results in emission order, each with its
\* block's id and the string its execution returned.
C14_OneTurnPerRound ==
    /\ context.messages = ExpectedMessages(Len(yielded))
    /\ \A n \in 1..Len(yielded) :
          yielded[n].trigger = "tools_executed" =>
              /\ yielded[n].data.tool_results = ExpectedResults(n)
              /\ yielded[n - 1].trigger = "tool_use"
              /\ Len(ExpectedMessages(n)) =
                     Len(ExpectedMessages(n - 2)) + (IF ExpectedResults(n) # <<>> THEN 2 ELSE 1)
    /\ (pc \in {"tools", "await_tool"} =>
           Last(context.messages) = [role |-> "assistant", content |-> tool_blocks])

C14_Witness ==
    /\ pc = "yielded"
    /\ transition.trigger = "tools_executed"
    /\ Len(transition.data.tool_results) = 2
    /\ transition.data.tool_results[1].content # transition.data.tool_results[2].content
    /\ Len(context.messages) = 3
    /\ context.messages[2].role = "assistant"
    /\ context.messages[3] = [role |-> "user", content |-> transition.data.tool_results]

\* ---- C15 --------------------------------------------------------------------------
ToolExecutionSteps == Cardinality({i \in 1..Len(dispatched) : dispatched[i] = EXECUTING_TOOLS})

ClassificationEffect(before, after, response) ==
    /\ after = [before EXCEPT !.messages = after.messages]
    /\ after.messages =
           IF response.stop_reason = "tool_use"
           THEN Append(before.messages, [role |-> "assistant", content |-> response.content])
           ELSE before.messages

\* C16: in every reachable context and for every response, classifying the
\* response a second time, on the context the first classification left, gives
\* the same transition (trigger, destination, payload); each classification
\* changes the context at most by appending the assistant turn to messages.
\* The record the run produced in AWAITING_TOOL_DECISION is reproduced likewise.
C16_ClassificationIdempotent ==
    /\ \A response \in Responses :
          LET first == HandleToolDecisionState(response, context)
              second == HandleToolDecisionState(response, first.context)
          IN /\ second.transition = first.transition
             /\ first.transition =
                    HandleToolDecisionState(response, NewContext(query, "")).transition
             /\ ClassificationEffect(context, first.context, response)
             /\ ClassificationEffect(first.context, second.context, response)
    /\ (pc = "yielded" /\ transition.from_state = AWAITING_TOOL_DECISION =>
           HandleToolDecisionState(last_response, context).transition = transition)

C16_Witness ==
    /\ pc = "yielded"
    /\ transition.from_state = AWAITING_TOOL_DECISION
    /\ transition.trigger = "tool_use"
    /\ Len(context.messages) = 2
    /\ HandleToolDecisionState(last_response, context).transition = transition
    /\ Len(HandleToolDecisionState(last_response, context).context.messages) = 3

\* ---- C17 --------------------------------------------------------------------------
\* C17: in every reachable context and for every response, the classification of
\* AWAITING_FOLLOW_UP and the one of AWAITING_TOOL_DECISION leave the same
\* context and produce the same transition up to from_state; and the record the
\* run produced in AWAITING_FOLLOW_UP is the one AWAITING_TOOL_DECISION would
\* have produced for the same response, up to from_state.
C17_FollowUpClassifiesAlike ==
    /\ \A response \in Responses :
          LET decision == HandleToolDecisionState(response, context)
              followUp == HandleFollowUpResponse(response, context)
          IN /\ followUp.context = decision.context
             /\ decision.transition.from_state = AWAITING_TOOL_DECISION
             /\ followUp.transition =
                    [decision.transition EXCEPT !.from_state = AWAITING_FOLLOW_UP]
    /\ (pc = "yielded" /\ transition.from_state = AWAITING_FOLLOW_UP =>
           transition =
               [HandleToolDecisionState(Last(modelResponses), context).transition
                    EXCEPT !.from_state = AWAITING_FOLLOW_UP])

C17_Witness ==
    /\ pc = "yielded"
    /\ transition.from_state = AWAITING_FOLLOW_UP
    /\ transition.to_state = ERROR
    /\ transition.trigger = "max_tokens"
    /\ transition.data = [error |-> "Token limit reached", partial_text |-> "b"]
    /\ Len(Last(modelResponses).content) = 2

\* ---- C18 --------------------------------------------------------------------------
\* C18: in every step the old message history is a prefix of the new one, whose
\* first entry is the caller's query as a user turn; messages grows by at most
\* one entry per step, and only together with a tool_use record (an assistant
\* turn) or a tools_executed record (a user turn).
C18_MessagesAppendOnly ==
    [][/\ IsPrefix(context.messages, context'.messages)
       /\ context'.messages[1] = [role |-> "user", content |-> query]
       /\ Len(context'.messages) \in {Len(context.messages), Len(context.messages) + 1}
       /\ (Len(context'.messages) = Len(context.messages) + 1 =>
              /\ Len(yielded') = Len(yielded) + 1
              /\ \/ /\ Last(yielded').trigger = "tool_use"
                    /\ Last(context'.messages).role = "assistant"
                 \/ /\ Last(yielded').trigger = "tools_executed"
                    /\ Last(context'.messages).role = "user")
       /\ (Len(yielded') = Len(yielded) + 1 /\ Last(yielded').trigger = "tool_use" =>
              Len(context'.messages) = Len(context.messages) + 1)]_vars

C18_Witness ==
    /\ Len(context.messages) = 4
    /\ context.messages[1] = [role |-> "user", content |-> query]
    /\ context.messages[2].role = "assistant"
    /\ context.messages[3].role = "user"
    /\ context.messages[4].role = "assistant"
    /\ Last(yielded).from_state = AWAITING_FOLLOW_UP

\* ---- C19 --------------------------------------------------------------------------
\* C19: no step changes system_prompt or metadata, which keep their values of the
\* run's start; tool_call_count and tool_call_history change only in the step in
\* which a tool of EXECUTING_TOOLS returns; messages does not change while
\* INITIAL is the state being dispatched.
C19_Frame ==
    [][/\ context'.system_prompt = context.system_prompt
       /\ context.system_prompt \in {SystemContent(h) : h \in Histories}
       /\ context'.metadata = context.metadata
       /\ context.metadata = <<>>
       /\ (\/ context'.tool_call_count # context.tool_call_count
           \/ context'.tool_call_history # context.tool_call_history) =>
              /\ current_state = EXECUTING_TOOLS
              /\ Last(dispatched) = EXECUTING_TOOLS
              /\ pc = "await_tool"
       /\ (current_state = INITIAL => context'.messages = context.messages)]_vars

C19_Witness ==
    /\ pc = "yielded"
    /\ transition.from_state = AWAITING_FOLLOW_UP
    /\ transition.trigger = "tool_use"
    /\ context.system_prompt = "SYSTEM_PROMPT\n\nPrevious conversation:\nearlier"
    /\ context.metadata = <<>>
    /\ context.tool_call_count = 2
    /\ Len(context.messages) = 4

\* ---- C20 --------------------------------------------------------------------------
NonTerminal == ConversationState \ Terminal

TransitionTable ==
    {<<INITIAL, "api_call_complete", AWAITING_TOOL_DECISION>>,
     <<AWAITING_TOOL_DECISION, "tool_use", EXECUTING_TOOLS>>,
     <<AWAITING_TOOL_DECISION, "end_turn", COMPLETED>>,
     <<AWAITING_TOOL_DECISION, "max_tokens", ERROR>>,
     <<AWAITING_TOOL_DECISION, "unknown_stop_reason", ERROR>>,
     <<EXECUTING_TOOLS, "tools_executed", AWAITING_FOLLOW_UP>>,
     <<AWAITING_FOLLOW_UP, "tool_use", EXECUTING_TOOLS>>,
     <<AWAITING_FOLLOW_UP, "end_turn", COMPLETED>>,
     <<AWAITING_FOLLOW_UP, "max_tokens", ERROR>>,
     <<AWAITING_FOLLOW_UP, "unknown_stop_reason", ERROR>>}
    \cup {<<state, "max_iterations_exceeded", ERROR>> : state \in NonTerminal}

\* C20: the yielded records form a connected path through the transition table:
\* the first starts at INITIAL, each later one starts where the one before it
\* ended, none starts at a terminal state, and each is a row of the table.
C20_ConnectedPath ==
    /\ (yielded # <<>> => yielded[1].from_state = INITIAL)
    /\ \A i \in 2..Len(yielded) : yielded[i].from_state = yielded[i - 1].to_state
    /\ \A i \in 1..Len(yielded) :
          /\ yielded[i].from_state \in NonTerminal
          /\ <<yielded[i].from_state, yielded[i].trigger, yielded[i].to_state>>
                 \in TransitionTable
====
